---- MODULE Spec2Model ----
(***************************************************************************)
(* Model of Resources/py-ba/pyba.py: a host-side SAM-BA client that loads  *)
(* a word-copy applet into target RAM and programs the internal flash of a *)
(* SAM3 page by page through the EEFC flash controller.                    *)
(*                                                                         *)
(* 32-bit words are kept as TLC integers.  The two words of the program    *)
(* that do not fit a signed 32-bit integer (0xFFFFF240 and 0xEA......) are *)
(* kept as their 32-bit two's-complement pattern; TopByte undoes that.     *)
(***************************************************************************)
EXTENDS Integers, Sequences, FiniteSets, TLC

\* ------------------------------------------------------------------ bounds
\* 'pages' and 'size' of the chip rows are 2048 and 256 in the source; the
\* model runs the same code on rows scaled down to these values.
Pages == 4
PageSize == 2

\* while ++tries <= 500
RetryBound == 500

\* ------------------------------------------------------------ bit helpers
RECURSIVE BitAnd(_, _)
BitAnd(a, b) ==
    IF a = 0 \/ b = 0 THEN 0
    ELSE (IF a % 2 = 1 /\ b % 2 = 1 THEN 1 ELSE 0) + 2 * BitAnd(a \div 2, b \div 2)

RECURSIVE BitOr(_, _)
BitOr(a, b) ==
    IF a = 0 THEN b
    ELSE IF b = 0 THEN a
    ELSE (IF a % 2 = 1 \/ b % 2 = 1 THEN 1 ELSE 0) + 2 * BitOr(a \div 2, b \div 2)

ShiftLeft(a, n) == a * (2 ^ n)

\* The top byte taken from the wrong end: w & 0xff
LowByte(w) == w % 256

\* (w & 0xff000000) >> 24 of a word kept as a signed 32-bit pattern
TopByte(w) == IF w >= 0 THEN w \div (2 ^ 24) ELSE (w \div (2 ^ 24)) + 256

Min(a, b) == IF a < b THEN a ELSE b

\* ------------------------------------------------------------- chip table
ATSAM3X8H == \h286E0A60
ATSAM3X8E == \h285E0A60
ATSAM3X8C == \h284E0A60

SAM3X8Row(nm) ==
    [name |-> nm, address |-> \h80000, pages |-> 2048, size |-> 256,
     planes |-> 2, lock_regions |-> 32, user |-> \h20001000,
     stack |-> \h20010000, registers_addr |-> \h400E0A00,
     can_brownout |-> FALSE]

CHIP_TABLE ==
    (ATSAM3X8H :> SAM3X8Row("ATSAM3X8H")) @@
    (ATSAM3X8E :> SAM3X8Row("ATSAM3X8E")) @@
    (ATSAM3X8C :> SAM3X8Row("ATSAM3X8C"))

\* A further row, as "adding a table entry" would give: a one-plane part with
\* brown-out capability, so that the planes == 2 and can_brownout branches of
\* EEFCFlash are taken both ways.
ONE_PLANE_ID == \h28000001

ExtraRows ==
    (ONE_PLANE_ID :> [SAM3X8Row("ONEPLANE") EXCEPT !.planes = 1,
                                                   !.can_brownout = TRUE])

\* The rows the sessions of the model run on: the ATSAM3X8H row as the source
\* has it (2048 pages of 256 bytes), every other row with its geometry scaled
\* to Pages pages of PageSize bytes.
ModelTable ==
    [id \in (DOMAIN CHIP_TABLE) \cup (DOMAIN ExtraRows) |->
        IF id = ATSAM3X8H THEN CHIP_TABLE[id]
        ELSE [(IF id \in DOMAIN CHIP_TABLE THEN CHIP_TABLE[id] ELSE ExtraRows[id])
                 EXCEPT !.pages = Pages, !.size = PageSize]]

\* An identifier that is in no row.
UNKNOWN_ID == \h28AC0CE0

\* ------------------------------------------------------------ SamBA layer
\* One entry of the record of what the host sent, in program order.
Cmd(op, addr, val, data) == [op |-> op, addr |-> addr, val |-> val, data |-> data]

\* The handshake asking for terminal mode: self._write("T#")
SamBA_terminalMode == Cmd("T", 0, 0, <<>>)

\* self._write("N#")
SamBA_binaryMode == Cmd("N", 0, 0, <<>>)
\* self._write("w%08X,4#" % (address))
SamBA_readWord(address) == Cmd("w", address, 4, <<>>)
\* self._write("W%08X,%08X#" % (address, value))
SamBA_writeWord(address, value) == Cmd("W", address, value, <<>>)
\* self._write("G%08X#" % (address))
SamBA_go(address) == Cmd("G", address, 0, <<>>)
\* self._write("S%08X,%08X#" % (address, len(data))); self._write(data)
SamBA_write(address, data) == Cmd("S", address, Len(data), data)

\* What self._read(n) can give: n bytes, or fewer after the 0.1 s timeout.
\* A 4-byte read is ok when all 4 bytes came; got is the number that came.
ReadResults(V) ==
    {[ok |-> TRUE, val |-> v, got |-> 4] : v \in V}
    \cup {[ok |-> FALSE, val |-> 0, got |-> n] : n \in 0..3}
\* The number of bytes self._read(2) can give.
AckLengths == 0..2
\* One call of self._read: the bytes asked for and the bytes returned.
Read(want, got) == [want |-> want, got |-> got]

VECTOR_ADDR == 0
SAM7_CHIPID == -3520          \* 0xfffff240
SAM3_CHIPID0 == \h400E0740
SAM3_CHIPID1 == \h400E0940
ARM7_BRANCH == \hEA           \* 0xea000000 >> 24

\* Words the reset vector can read as: an ARM7TDMI branch (0xEA000010) and a
\* Cortex-M initial stack pointer.
VectorValues == {-369098736, \h20001000}
\* Words a chip-ID register can read as.
CidValues == {0, ATSAM3X8E, ONE_PLANE_ID, UNKNOWN_ID}
\* Words a flash status register can read as: bit 0 ready, bit 2 lock error.
FSRValues == {0, 1, 4, 5}

\* ------------------------------------------------------- WordCopyApplet
dst_ptr == \h28
reset_ptr == \h24
src_ptr == \h2C
stack_ptr == \h20
start_ptr == \h00
words_ptr == \h30
code ==
    << 9, 72, 10, 73, 10, 74, 2, 224, 8, 201, 8, 192, 1, 58, 0,
       42, 250, 209, 4, 72, 0, 40, 1, 209, 1, 72, 133, 70, 112, 71,
       192, 70, 0, 0, 0, 0, 0, 0, 0, 0, 0, 0, 0, 0, 0,
       0, 0, 0, 0, 0, 0, 0 >>

Applet_init(base_address) == << SamBA_write(base_address, code) >>
setStack(base_addr, stack) == SamBA_writeWord(base_addr + stack_ptr, stack)
setWords(base_addr, words) == SamBA_writeWord(base_addr + words_ptr, words)
setSource(base_addr, addr) == SamBA_writeWord(base_addr + src_ptr, addr)
setDestination(base_addr, addr) == SamBA_writeWord(base_addr + dst_ptr, addr)
\* run without the Thumb bit in the reset vector.
run_noThumb(base_addr) ==
    << SamBA_writeWord(base_addr + reset_ptr, base_addr + start_ptr),
       SamBA_go(base_addr + stack_ptr) >>

run(base_addr) ==
    << SamBA_writeWord(base_addr + reset_ptr, base_addr + start_ptr + 1),
       SamBA_go(base_addr + stack_ptr) >>
Applet_size == Len(code)

\* ------------------------------------------------------------ EEFCFlash
EEFC_KEY == \h5A
EEFC0_FMR == \h00
EEFC0_FCR == \h04
EEFC0_FSR == \h08
EEFC1_FMR == \h200
EEFC1_FCR == \h204
EEFC1_FSR == \h208
EEFC_FCMD_EWP == \h3
EEFC_FCMD_SGPB == \hB
EEFC_FCMD_CGPB == \hC
FWS_ERRATA == ShiftLeft(6, 8)

writeRegister(chip, offset, value) ==
    SamBA_writeWord(offset + chip.registers_addr, value)

\* (EEFC_KEY << 24) | (arg << 8) | cmd
FCRWord(cmd, arg) == BitOr(BitOr(ShiftLeft(EEFC_KEY, 24), ShiftLeft(arg, 8)), cmd)

\* A call either sends commands or raises before sending any.
Sent(cmds) == [raised |-> "", cmds |-> cmds]
Raised(e) == [raised |-> e, cmds |-> << >>]

writeFCR0(chip, cmd, arg) ==
    Sent(<< writeRegister(chip, EEFC0_FCR, FCRWord(cmd, arg)) >>)

\* The argument expression names cmdL, which is bound nowhere: evaluating it
\* raises NameError before writeRegister is called.
writeFCR1(chip, cmd, arg) == Raised("NameError")

\* Buffer A placed at ram_user_base, on top of the applet.
page_buffer_a_atBase(chip) == chip.user

page_buffer_a(chip) == chip.user + Applet_size
page_buffer_b(chip) == page_buffer_a(chip) + chip.size

\* The page count rounded down: file_size / page_size
PageCountFloor(file_size, page_size) == file_size \div page_size

\* page_count = (file_size + page_size - 1) / page_size
PageCount(file_size, page_size) == (file_size + page_size - 1) \div page_size

\* The image: file_size bytes, none of them zero, so that padding shows.
Image(file_size) == [i \in 1..file_size |-> ((i - 1) % 255) + 1]
Zeros(n) == [i \in 1..n |-> 0]
FileSizes == 0..(Pages * PageSize + PageSize)

\* +(+tries): the unary plus applied twice, no increment
PrePlusPlus(t) == t

\* The lock test on the wrong bit: fsr & (1 << 1)
HasLockBit1(fsr) == BitAnd(fsr, ShiftLeft(1, 1)) # 0

\* fsr & (1 << 2)
HasLock(fsr) == BitAnd(fsr, ShiftLeft(1, 2)) # 0

\* The ready test with the planes or-ed: (fsr0 | fsr1) & 0x1
EitherReady(a, b) == BitAnd(BitOr(a, b), 1) # 0

\* fsr0 & fsr1 & 0x1
BothReady(a, b) == BitAnd(BitAnd(a, b), 1) # 0

VARIABLES
    pc,          \* position of the program
    err,         \* the exception that ended the session, "" if none
    ret,         \* where the running waitFSR returns to
    cid,         \* main's chipId
    file_size,   \* size of the image file
    f_pos,       \* read position of the open image file
    page_count,  \* write()'s page_count
    page_num,    \* write()'s loop index
    done,        \* write()'s done flag
    on_buffer,   \* EEFCFlash.on_buffer
    tries,       \* waitFSR's tries
    fsr0, fsr1,  \* waitFSR's fsr0 and fsr1
    polls0,      \* reads of EEFC0_FSR made by the running waitFSR (capped)
    polls1,      \* reads of EEFC1_FSR made by the running waitFSR (capped)
    id_reads,    \* chipId's word reads, kept until its result has been looked up
    last_read,   \* the latest self._read call: bytes asked for and returned
    log          \* every other command sent, and waitFSR's returns, in order

vars == << pc, err, ret, cid, file_size, f_pos, page_count, page_num, done,
           on_buffer, tries, fsr0, fsr1, polls0, polls1, id_reads, last_read,
           log >>

PollCap == RetryBound + 1
Bump(n) == Min(n + 1, PollCap)

Chip == ModelTable[cid]

Init ==
    /\ pc = "SamBA_init"
    /\ err = ""
    /\ ret = ""
    /\ cid = 0
    /\ file_size \in FileSizes
    /\ f_pos = 0
    /\ page_count = 0
    /\ page_num = 0
    /\ done = FALSE
    /\ on_buffer = 0
    /\ tries = 0
    /\ fsr0 = 0
    /\ fsr1 = 0
    /\ polls0 = 0
    /\ polls1 = 0
    /\ id_reads = << >>
    /\ last_read = Read(0, 0)
    /\ log = << >>

\* An exception nobody catches: the session is over.
Fail(e) == pc' = "failed" /\ err' = e

\* tries = 0; fsr1 = 0x1, with the caller's position to return to
EnterWaitFSR(r) ==
    /\ pc' = "waitFSR"
    /\ ret' = r
    /\ tries' = 0
    /\ fsr0' = 0
    /\ fsr1' = 1
    /\ polls0' = 0
    /\ polls1' = 0

FSRok == Cmd("FSRok", 0, 0, << >>)

\* SamBA.__init__: N# and a 2-byte read whose result is dropped.
SamBA_init ==
    /\ pc = "SamBA_init"
    /\ \E ack \in AckLengths :
         /\ log' = Append(log, SamBA_binaryMode)
         /\ last_read' = Read(2, ack)
         /\ pc' = "chipId"
    /\ UNCHANGED << err, ret, cid, file_size, f_pos, page_count, page_num, done,
                    on_buffer, tries, fsr0, fsr1, polls0, polls1, id_reads >>

\* A w command with the reply that came: the word unpacked from 4 bytes, or
\* nothing when fewer came.
Answered(cmd, r) == [cmd EXCEPT !.data = IF r.ok THEN << r.val >> ELSE << >>]

\* SamBA.chipId, with the readWord calls it makes.  unpack("<L", value)
\* raises struct.error on fewer than 4 bytes.
chipId_from(Cids) ==
    /\ pc = "chipId"
    /\ \E vector \in ReadResults(VectorValues),
          c1 \in ReadResults(Cids),
          c2 \in ReadResults(Cids) :
         LET rd0 == << Answered(SamBA_readWord(VECTOR_ADDR), vector) >> IN
         IF ~vector.ok THEN
             /\ id_reads' = rd0
             /\ last_read' = Read(4, vector.got)
             /\ Fail("struct.error")
             /\ cid' = cid
         ELSE IF TopByte(vector.val) = ARM7_BRANCH THEN
             /\ id_reads' = rd0 \o << Answered(SamBA_readWord(SAM7_CHIPID), c1) >>
             /\ last_read' = Read(4, c1.got)
             /\ IF c1.ok THEN cid' = c1.val /\ pc' = "main" /\ err' = err
                         ELSE cid' = cid /\ Fail("struct.error")
         ELSE IF ~c1.ok THEN
             /\ id_reads' = rd0 \o << Answered(SamBA_readWord(SAM3_CHIPID0), c1) >>
             /\ last_read' = Read(4, c1.got)
             /\ Fail("struct.error")
             /\ cid' = cid
         ELSE IF c1.val = 0 THEN
             /\ id_reads' = rd0 \o << Answered(SamBA_readWord(SAM3_CHIPID0), c1),
                                      Answered(SamBA_readWord(SAM3_CHIPID1), c2) >>
             /\ last_read' = Read(4, c2.got)
             /\ IF c2.ok THEN cid' = c2.val /\ pc' = "main" /\ err' = err
                         ELSE cid' = cid /\ Fail("struct.error")
         ELSE
             /\ id_reads' = rd0 \o << Answered(SamBA_readWord(SAM3_CHIPID0), c1) >>
             /\ last_read' = Read(4, c1.got)
             /\ cid' = c1.val /\ pc' = "main" /\ err' = err
    /\ UNCHANGED << ret, file_size, f_pos, page_count, page_num, done,
                    on_buffer, tries, fsr0, fsr1, polls0, polls1, log >>

chipId == chipId_from(CidValues)

\* A lookup that takes every non-zero identifier for a known one.
InTableNonZero(id) == id # 0

\* chipId in CHIP_TABLE
InTable(id) == id \in DOMAIN ModelTable

\* main: if chipId not in CHIP_TABLE: raise Exception("Unknow chip ID ...")
main ==
    /\ pc = "main"
    /\ UNCHANGED last_read
    /\ IF ~InTable(cid)
         THEN Fail("Unknow chip ID")
         ELSE pc' = "EEFCFlash_init" /\ err' = err
    /\ UNCHANGED << ret, cid, file_size, f_pos, page_count, page_num, done,
                    on_buffer, tries, fsr0, fsr1, polls0, polls1, id_reads, log >>

\* The setup with the wait-state value written to the command registers.
EEFCFlash_init_cmds_FCR(chip) ==
    Applet_init(chip.user)
    \o << setWords(chip.user, chip.size \div 4),
          setStack(chip.user, chip.stack),
          writeRegister(chip, EEFC0_FCR, FWS_ERRATA) >>
    \o (IF chip.planes = 2
          THEN << writeRegister(chip, EEFC1_FCR, FWS_ERRATA) >>
          ELSE << >>)

\* The setup with the mode register of plane 1 written whatever the planes.
EEFCFlash_init_cmds_bothFMR(chip) ==
    Applet_init(chip.user)
    \o << setWords(chip.user, chip.size \div 4),
          setStack(chip.user, chip.stack),
          writeRegister(chip, EEFC0_FMR, FWS_ERRATA),
          writeRegister(chip, EEFC1_FMR, FWS_ERRATA) >>

\* The commands EEFCFlash.__init__ sends: the applet, its word count and
\* stack, and the wait-state field of each present plane.
EEFCFlash_init_cmds(chip) ==
    Applet_init(chip.user)
    \o << setWords(chip.user, chip.size \div 4),
          setStack(chip.user, chip.stack),
          writeRegister(chip, EEFC0_FMR, FWS_ERRATA) >>
    \o (IF chip.planes = 2
          THEN << writeRegister(chip, EEFC1_FMR, FWS_ERRATA) >>
          ELSE << >>)

EEFCFlash_init ==
    /\ pc = "EEFCFlash_init"
    /\ UNCHANGED last_read
    /\ log' = log \o EEFCFlash_init_cmds(Chip)
    /\ on_buffer' = page_buffer_a(Chip)
    /\ id_reads' = << >>
    /\ pc' = "write"
    /\ UNCHANGED << err, ret, cid, file_size, f_pos, page_count, page_num, done,
                    tries, fsr0, fsr1, polls0, polls1 >>

\* write() without its capacity check.
write_nocheck ==
    /\ pc = "write"
    /\ UNCHANGED last_read
    /\ f_pos' = 0
    /\ page_count' = PageCount(file_size, Chip.size)
    /\ pc' = "write_loop"
    /\ page_num' = 0
    /\ UNCHANGED << err, ret, cid, file_size, done, on_buffer, tries, fsr0, fsr1,
                    polls0, polls1, id_reads, log >>

\* EEFCFlash.write up to the page loop: the size of the file and the
\* capacity check.
write ==
    /\ pc = "write"
    /\ UNCHANGED last_read
    /\ f_pos' = 0
    /\ page_count' = PageCount(file_size, Chip.size)
    /\ IF page_count' > Chip.pages
         THEN Fail("too big for this chip")
         ELSE pc' = "write_loop" /\ err' = err
    /\ page_num' = 0
    /\ UNCHANGED << ret, cid, file_size, done, on_buffer, tries, fsr0, fsr1,
                    polls0, polls1, id_reads, log >>

\* A read that gives one byte at a time, whatever was asked for.
ChunkHalf(pos, page_size) ==
    SubSeq(Image(file_size), pos + 1, Min(pos + 1, file_size))

\* The bytes f.read(page_size) gives at position pos.
Chunk(pos, page_size) ==
    SubSeq(Image(file_size), pos + 1, Min(pos + page_size, file_size))

\* data += '\0' * (page_size - amt_read) when amt_read < page_size
Padded(data, page_size) ==
    IF Len(data) < page_size THEN data \o Zeros(page_size - Len(data)) ELSE data

\* A toggle that leaves buffer B current once it is.
ToggleStuck(chip, buf) == page_buffer_b(chip)

\* No toggle: the current buffer stays current.
ToggleNone(chip, buf) == buf

\* if on_buffer == page_buffer_a: on_buffer = page_buffer_b  else: ... = a
Toggle(chip, buf) ==
    IF buf = page_buffer_a(chip) THEN page_buffer_b(chip) ELSE page_buffer_a(chip)

\* writePage with the applet run before the status wait.
writePage_setup_run(chip, page, buf) ==
    << setDestination(chip.user, chip.address + page * chip.size),
       setSource(chip.user, buf) >> \o run(chip.user)

\* writePage without the source slot written.
writePage_setup_noSource(chip, page, buf) ==
    << setDestination(chip.user, chip.address + page * chip.size) >>

\* writePage with the source slot pointed at the buffer that is not current.
writePage_setup_otherBuffer(chip, page, buf) ==
    << setDestination(chip.user, chip.address + page * chip.size),
       setSource(chip.user, Toggle(chip, buf)) >>

\* What writePage sends before it calls waitFSR:
\* page_addr = address + page * page_size; setDestination; setSource
writePage_setup(chip, page, buf) ==
    << setDestination(chip.user, chip.address + page * chip.size),
       setSource(chip.user, buf) >>

\* One iteration of write()'s page loop, up to the waitFSR call in writePage:
\* read and pad the chunk, load the buffer, then writePage's range guard,
\* setDestination and setSource.  With the range exhausted, write() returns
\* and main calls setBootFlash.
write_loop ==
    /\ pc = "write_loop"
    /\ UNCHANGED last_read
    /\ IF page_num < page_count THEN
         LET page_size == Chip.size
             data == Chunk(f_pos, page_size)
             load == SamBA_write(on_buffer, Padded(data, page_size))
         IN  /\ f_pos' = f_pos + Len(data)
             /\ done' = (Len(data) < page_size)
             /\ IF page_num >= Chip.pages THEN
                    \* raise Excpetion(...): the name is bound nowhere
                    /\ log' = Append(log, load)
                    /\ Fail("NameError")
                    /\ UNCHANGED << ret, tries, fsr0, fsr1, polls0, polls1 >>
                ELSE
                    /\ log' = log \o << load >>
                                   \o writePage_setup(Chip, page_num, on_buffer)
                    /\ EnterWaitFSR("writePage")
                    /\ err' = err
       ELSE
         /\ pc' = "setBootFlash"
         /\ UNCHANGED << err, ret, f_pos, done, tries, fsr0, fsr1, polls0,
                         polls1, log >>
    /\ UNCHANGED << cid, file_size, page_count, page_num, on_buffer, id_reads >>

\* One evaluation of waitFSR's while condition and, when it holds, one pass
\* through the loop body; r0 and r1 are the words the two status registers
\* read as.
waitFSR_reads(Values) ==
    /\ pc = "waitFSR"
    /\ UNCHANGED last_read
    /\ \E r0 \in Values, r1 \in Values :
         IF ~(PrePlusPlus(tries) <= RetryBound) THEN
             \* the loop ends and waitFSR returns
             /\ pc' = ret
             /\ log' = Append(log, FSRok)
             /\ UNCHANGED << err, fsr0, fsr1, polls0, polls1 >>
         ELSE IF HasLock(r0) THEN
             /\ Fail("Flash lock error")
             /\ fsr0' = r0
             /\ polls0' = Bump(polls0)
             /\ UNCHANGED << fsr1, polls1, log >>
         ELSE IF Chip.planes = 2 /\ HasLock(r1) THEN
             /\ Fail("Flash lock error")
             /\ fsr0' = r0
             /\ fsr1' = r1
             /\ polls0' = Bump(polls0)
             /\ polls1' = Bump(polls1)
             /\ UNCHANGED log
         ELSE
             /\ fsr0' = r0
             /\ fsr1' = (IF Chip.planes = 2 THEN r1 ELSE fsr1)
             /\ polls0' = Bump(polls0)
             /\ polls1' = (IF Chip.planes = 2 THEN Bump(polls1) ELSE polls1)
             /\ IF BothReady(fsr0', fsr1') THEN
                    \* break
                    /\ pc' = ret
                    /\ err' = err
                    /\ log' = Append(log, FSRok)
                ELSE IF tries > RetryBound THEN
                    \* sleep(0.1); raise Exception("Flash command error")
                    /\ Fail("Flash command error")
                    /\ UNCHANGED log
                ELSE
                    /\ UNCHANGED << pc, err, log >>
    /\ tries' = PrePlusPlus(tries)
    /\ UNCHANGED << ret, cid, file_size, f_pos, page_count, page_num, done,
                    on_buffer, id_reads >>

waitFSR == waitFSR_reads(FSRValues)

\* The EWP command issued on both planes, one after the other.
EWPBoth(chip, page) ==
    Sent(<< writeRegister(chip, EEFC0_FCR, FCRWord(EEFC_FCMD_EWP, page)),
            writeRegister(chip, EEFC1_FCR, FCRWord(EEFC_FCMD_EWP, page)) >>)

\* The plane-specific Enhanced-Write-Page command of writePage.
EWP(chip, page) ==
    IF chip.planes = 2 /\ page >= chip.pages \div 2
      THEN writeFCR1(chip, EEFC_FCMD_EWP, page - chip.pages \div 2)
      ELSE writeFCR0(chip, EEFC_FCMD_EWP, page)

\* writePage after its waitFSR: applet.run() and the EWP command; then, back
\* in write(), the buffer toggle, the break on done, and the next index.
writePage ==
    /\ pc = "writePage"
    /\ UNCHANGED last_read
    /\ LET ewp == EWP(Chip, page_num) IN
         /\ log' = log \o run(Chip.user) \o ewp.cmds
         /\ IF ewp.raised # "" THEN
                /\ Fail(ewp.raised)
                /\ UNCHANGED << on_buffer, page_num >>
            ELSE
                /\ on_buffer' = Toggle(Chip, on_buffer)
                /\ err' = err
                /\ IF done
                     THEN pc' = "setBootFlash" /\ page_num' = page_num
                     ELSE pc' = "write_loop" /\ page_num' = page_num + 1
    /\ UNCHANGED << ret, cid, file_size, f_pos, page_count, done, tries, fsr0,
                    fsr1, polls0, polls1, id_reads >>

\* main calls eefc.setBootFlash(True)
enable_flash == TRUE

\* setBootFlash without its first waitFSR.
setBootFlash_nowait ==
    /\ pc = "setBootFlash"
    /\ UNCHANGED last_read
    /\ pc' = "setBootFlash_cmd"
    /\ UNCHANGED << err, ret, cid, file_size, f_pos, page_count, page_num, done,
                    on_buffer, tries, fsr0, fsr1, polls0, polls1, id_reads, log >>

\* setBootFlash up to its first waitFSR.
setBootFlash ==
    /\ pc = "setBootFlash"
    /\ UNCHANGED last_read
    /\ EnterWaitFSR("setBootFlash_cmd")
    /\ UNCHANGED << err, cid, file_size, f_pos, page_count, page_num, done,
                    on_buffer, id_reads, log >>

\* The GPNVM argument with the two values exchanged.
BootValueSwapped(chip) == IF chip.can_brownout THEN 1 ELSE 3

\* if self.chip_data['can_brownout']: value = 3  else: value = 1
BootValue(chip) == IF chip.can_brownout THEN 3 ELSE 1

\* setBootFlash with its command written twice.
setBootFlash_cmd_twice ==
    /\ pc = "setBootFlash_cmd"
    /\ UNCHANGED last_read
    /\ LET cmd == IF enable_flash THEN EEFC_FCMD_SGPB ELSE EEFC_FCMD_CGPB
           value == BootValue(Chip)
           fcr == writeFCR0(Chip, cmd, value)
       IN  log' = log \o fcr.cmds \o fcr.cmds
    /\ EnterWaitFSR("setBootFlash_sleep")
    /\ UNCHANGED << err, cid, file_size, f_pos, page_count, page_num, done,
                    on_buffer, id_reads >>

\* The Set/Clear-GPNVM-bit command on plane 0, then the second waitFSR.
setBootFlash_cmd ==
    /\ pc = "setBootFlash_cmd"
    /\ UNCHANGED last_read
    /\ LET cmd == IF enable_flash THEN EEFC_FCMD_SGPB ELSE EEFC_FCMD_CGPB
           value == BootValue(Chip)
           fcr == writeFCR0(Chip, cmd, value)
       IN  log' = log \o fcr.cmds
    /\ EnterWaitFSR("setBootFlash_sleep")
    /\ UNCHANGED << err, cid, file_size, f_pos, page_count, page_num, done,
                    on_buffer, id_reads >>

\* sleep(10); setBootFlash returns and main returns 0.
setBootFlash_sleep ==
    /\ pc = "setBootFlash_sleep"
    /\ UNCHANGED last_read
    /\ pc' = "complete"
    /\ UNCHANGED << err, ret, cid, file_size, f_pos, page_count, page_num, done,
                    on_buffer, tries, fsr0, fsr1, polls0, polls1, id_reads, log >>

Next ==
    \/ SamBA_init
    \/ chipId
    \/ main
    \/ EEFCFlash_init
    \/ write
    \/ write_loop
    \/ waitFSR
    \/ writePage
    \/ setBootFlash
    \/ setBootFlash_cmd
    \/ setBootFlash_sleep

Spec == Init /\ [][Next]_vars

\* ------------------------------------------- sessions at the source's scale
\* Image sizes of the full-scale sessions: on the ATSAM3X8H empty, one short
\* page (3 and 100 bytes) and eight full pages.
E2ESizes == {0, 3, 100, 2048}
\* Words the chip-ID registers read as in the full-scale sessions: the
\* ATSAM3X8H and the one-plane part.
E2ECids == {0, ATSAM3X8H, ONE_PLANE_ID}

InitE2E ==
    /\ pc = "SamBA_init"
    /\ err = ""
    /\ ret = ""
    /\ cid = 0
    /\ file_size \in E2ESizes
    /\ f_pos = 0
    /\ page_count = 0
    /\ page_num = 0
    /\ done = FALSE
    /\ on_buffer = 0
    /\ tries = 0
    /\ fsr0 = 0
    /\ fsr1 = 0
    /\ polls0 = 0
    /\ polls1 = 0
    /\ id_reads = << >>
    /\ last_read = Read(0, 0)
    /\ log = << >>

chipId_E2E == chipId_from(E2ECids)

NextE2E ==
    \/ SamBA_init
    \/ chipId_E2E
    \/ main
    \/ EEFCFlash_init
    \/ write
    \/ write_loop
    \/ waitFSR
    \/ writePage
    \/ setBootFlash
    \/ setBootFlash_cmd
    \/ setBootFlash_sleep

SpecE2E == InitE2E /\ [][NextE2E]_vars

\* ------------------------------------------ sessions with a target that answers
\* The number of polls of one waitFSR call within which the status becomes
\* ready.
ReadyWithin == 2

\* Words the status registers read as on a target that completes every
\* command: never a lock bit, ready from the ReadyWithin-th poll of a call.
ReadyFSRValues == IF polls0 + 1 < ReadyWithin THEN {0, 1} ELSE {1}

waitFSR_ready == waitFSR_reads(ReadyFSRValues)

NextLive ==
    \/ SamBA_init
    \/ chipId
    \/ main
    \/ EEFCFlash_init
    \/ write
    \/ write_loop
    \/ waitFSR_ready
    \/ writePage
    \/ setBootFlash
    \/ setBootFlash_cmd
    \/ setBootFlash_sleep

\* The program runs on: every step it can take it eventually takes.
SpecLive == Init /\ [][NextLive]_vars /\ WF_vars(NextLive)

\* ------------------------------------------------------ reading the log
\* The chip row has been looked up: Chip is defined.
Known == cid \in DOMAIN ModelTable /\ pc \notin {"SamBA_init", "chipId", "main"}

Bit0(w) == w % 2 = 1
Bit2(w) == (w \div 4) % 2 = 1

IsBlockWrite(c) == c.op = "S"
IsGo(c) == c.op = "G"

Count(seq, Test(_)) == Len(SelectSeq(seq, Test))

\* waitFSR's return points in writePage and setBootFlash
ReturnPoints == {"writePage", "setBootFlash_cmd", "setBootFlash_sleep"}

\* ------------------------------------------------------------------- C1
\* C1: waitFSR stops after exactly RetryBound (500) status polls when the
\* status never reads ready: it makes no poll beyond the 500th, and after a
\* 500th poll that was not ready it is no longer polling.
C1_WaitFSRStopsAtRetryBound ==
    /\ polls0 <= RetryBound
    /\ pc = "waitFSR" => polls0 < RetryBound

\* ------------------------------------------------------------------- C2
\* C2: a poll that reads the lock-error bit (bit 2) on a present plane ends
\* waitFSR with the flash lock error at once, whatever the ready bits and
\* however few polls were made; the locked word is the last one read, so no
\* poll follows it.
C2_LockErrorIsImmediate ==
    /\ (polls0 > 0 /\ Bit2(fsr0)) => (pc = "failed" /\ err = "Flash lock error")
    /\ (polls1 > 0 /\ Bit2(fsr1)) => (pc = "failed" /\ err = "Flash lock error")
    /\ err = "Flash lock error" =>
          /\ pc = "failed"
          /\ polls0 > 0
          /\ Bit2(fsr0) \/ (Chip.planes = 2 /\ polls1 = polls0 /\ Bit2(fsr1))

\* Lock error on plane 1 at the first poll, with both planes reading ready.
C2_Witness ==
    /\ pc = "failed" /\ err = "Flash lock error"
    /\ polls0 = 1 /\ polls1 = 1
    /\ fsr0 = 1 /\ fsr1 = 5

\* ------------------------------------------------------------------- C3
\* C3: waitFSR returns exactly when a poll reads bit 0 set and bit 2 clear on
\* every present plane: on return the last words read are ready and unlocked
\* (plane 1 too on a two-plane chip), while it is still polling the last poll
\* was not such a poll, and on a one-plane chip plane 1 is never read.
C3_SuccessIffAllPlanesReady ==
    Known =>
      LET two == Chip.planes = 2
          allReady == /\ Bit0(fsr0) /\ ~Bit2(fsr0)
                      /\ two => (Bit0(fsr1) /\ ~Bit2(fsr1))
      IN  /\ pc \in ReturnPoints => (polls0 >= 1 /\ allReady)
          /\ (pc \in ReturnPoints /\ two) => polls1 = polls0
          /\ (pc = "waitFSR" /\ polls0 >= 1) => ~allReady
          /\ ~two => polls1 = 0

\* A one-plane chip returning on its second poll without reading plane 1.
C3_Witness ==
    /\ Known /\ Chip.planes = 1
    /\ pc = "writePage" /\ polls0 = 2 /\ polls1 = 0 /\ fsr0 = 1

\* ------------------------------------------------- the pages in the log
\* Block writes in the order sent: the applet first, then one per page.
BlockWrites == SelectSeq(log, IsBlockWrite)
PageLoads == IF BlockWrites = << >> THEN << >> ELSE Tail(BlockWrites)

IsFCRWrite(c) ==
    /\ c.op = "W"
    /\ c.addr \in {Chip.registers_addr + 4, Chip.registers_addr + 516}
\* A command word whose command field is 3, Enhanced Write Page
IsEWPWrite(c) == IsFCRWrite(c) /\ c.val % 256 = 3
EWPWrites == SelectSeq(log, IsEWPWrite)

\* A word write to the applet's source slot, base + 0x2c
IsSourceWrite(c) == c.op = "W" /\ c.addr = Chip.user + 44
SourceWrites == SelectSeq(log, IsSourceWrite)

Capacity == Chip.size * Chip.pages

\* ceil(S / P) as the least n with n * P >= S
CeilDiv(S, P) == CHOOSE n \in 0..S : n * P >= S /\ (n = 0 \/ (n - 1) * P < S)

\* Page k (from 0) of the image, zero-padded on its tail to P bytes
PaddedPage(k, P) ==
    [i \in 1..P |-> IF k * P + i <= file_size THEN Image(file_size)[k * P + i] ELSE 0]

\* The Enhanced-Write-Page register write the specification names for page p
ExpectedEWP(p) ==
    IF Chip.planes = 2 /\ p >= Chip.pages \div 2
      THEN Cmd("W", Chip.registers_addr + 516,
               90 * 16777216 + (p - Chip.pages \div 2) * 256 + 3, << >>)
      ELSE Cmd("W", Chip.registers_addr + 4,
               90 * 16777216 + p * 256 + 3, << >>)

\* write() is over: it returned, or an exception left it.
PageLoopOver ==
    \/ pc \in {"setBootFlash", "setBootFlash_cmd", "setBootFlash_sleep",
               "complete", "failed"}
    \/ pc = "waitFSR" /\ ret # "writePage"

\* ------------------------------------------------------------------- C4
\* C4: for an image that fits the chip, when write() is over without a lock
\* error it has performed exactly ceil(S/P) page-write cycles, for pages
\* 0..ceil(S/P)-1 in order: one block write of the page zero-padded to P
\* bytes, one applet run and one EWP command each.
C4_PageCyclesAreCeil ==
    (/\ Known /\ pc \notin {"EEFCFlash_init", "write"}
     /\ file_size <= Capacity
     /\ err # "Flash lock error"
     /\ PageLoopOver)
    => LET n == CeilDiv(file_size, Chip.size) IN
         /\ Len(PageLoads) = n
         /\ Count(log, IsGo) = n
         /\ Len(EWPWrites) = n
         /\ \A k \in 1..n :
              /\ PageLoads[k].data = PaddedPage(k - 1, Chip.size)
              /\ EWPWrites[k] = ExpectedEWP(k - 1)

\* ------------------------------------------------------------------- C5
\* C5: every page the applet was run for has its EWP command word written,
\* exactly once, to the command register of its plane: plane 1 with argument
\* p - pages/2 for p >= pages/2 on a two-plane chip, plane 0 with argument p
\* otherwise.
C5_EWPWrittenForEveryPage ==
    Known =>
      /\ Len(EWPWrites) = Count(log, IsGo)
      /\ \A k \in 1..Len(EWPWrites) : EWPWrites[k] = ExpectedEWP(k - 1)

\* ------------------------------------------------------------------- C6
\* C6: an image larger than page_size * pages never gets past the capacity
\* check, which fails with the capacity error, and in its session no block
\* write to a staging buffer, no G command and no write to a flash command
\* register is sent.
C6_TooLargeWritesNothingToFlash ==
    (Known /\ file_size > Capacity) =>
      /\ pc \in {"EEFCFlash_init", "write", "failed"}
      /\ pc = "failed" => err = "too big for this chip"
      /\ PageLoads = << >>
      /\ Count(log, IsGo) = 0
      /\ Count(log, IsFCRWrite) = 0

\* The capacity error for an image one byte larger than the flash.
C6_Witness ==
    /\ Known /\ file_size = Capacity + 1
    /\ pc = "failed" /\ err = "too big for this chip"

\* ------------------------------------------------------------------- C7
\* C7 as claimed: when the capacity error is raised, no write command of any
\* kind (block write, word write) has been sent.
C7_NoWriteBeforeCapacityError ==
    err = "too big for this chip" =>
      \A i \in 1..Len(log) : log[i].op \notin {"S", "W"}

\* C7 as amended: when the capacity error is raised, what has been sent is the
\* handshake and the setup writes only - the applet's 52 bytes to
\* ram_user_base, the word count and the stack top to their applet slots, and
\* the wait-state value to the mode register of each present plane.
C7_OnlySetupWritesBeforeCapacityError ==
    err = "too big for this chip" =>
      /\ Known
      /\ log = << Cmd("N", 0, 0, << >>),
                  Cmd("S", Chip.user, 52, code),
                  Cmd("W", Chip.user + 48, Chip.size \div 4, << >>),
                  Cmd("W", Chip.user + 32, Chip.stack, << >>),
                  Cmd("W", Chip.registers_addr, 1536, << >>) >>
               \o (IF Chip.planes = 2
                     THEN << Cmd("W", Chip.registers_addr + 512, 1536, << >>) >>
                     ELSE << >>)

\* The capacity error on a two-plane chip, after the six setup commands.
C7_Witness ==
    /\ err = "too big for this chip"
    /\ Chip.planes = 2
    /\ Len(log) = 6

\* ------------------------------------------------------------------- C8
\* C8: a chip identifier that is no key of the table ends the session with
\* the unknown-chip error at the lookup, and all that was sent in that
\* session is the binary-mode handshake and chipId's two or three word reads:
\* no block write, no word write, no register write, no G command.
C8_UnknownChipSendsNoWrite ==
    /\ (/\ pc \notin {"SamBA_init", "chipId", "main"}
        /\ cid \notin DOMAIN ModelTable
        /\ err # "struct.error")
       => (pc = "failed" /\ err = "Unknow chip ID")
    /\ err = "Unknow chip ID" =>
          /\ cid \notin DOMAIN ModelTable
          /\ log = << Cmd("N", 0, 0, << >>) >>
          /\ Len(id_reads) \in {2, 3}
          /\ \A i \in 1..Len(id_reads) : id_reads[i].op = "w"

\* An unknown identifier read from the secondary SAM3 register.
C8_Witness ==
    /\ pc = "failed" /\ err = "Unknow chip ID"
    /\ cid = UNKNOWN_ID
    /\ Len(id_reads) = 3

\* ------------------------------------------------------------------- C9
\* C9: the block write and the applet source of the page with index n name
\* buffer A (ram_user_base + 52) when n is even and buffer B (A + page_size)
\* when n is odd, on one-plane and two-plane chips alike, and once EEFCFlash
\* is constructed on_buffer is always one of the two.
C9_BuffersAlternate ==
    (Known /\ pc # "EEFCFlash_init") =>
      LET A == Chip.user + 52
          B == Chip.user + 52 + Chip.size
          Buf(n) == IF n % 2 = 0 THEN A ELSE B
      IN  /\ on_buffer \in {A, B}
          /\ \A k \in 1..Len(PageLoads) : PageLoads[k].addr = Buf(k - 1)
          /\ \A k \in 1..Len(SourceWrites) : SourceWrites[k].val = Buf(k - 1)
          /\ Len(SourceWrites) = Len(PageLoads)

\* The third page (index 2, on plane 1) of a two-plane chip loaded into A.
C9_Witness ==
    /\ Known /\ Chip.planes = 2
    /\ Len(PageLoads) = 3
    /\ PageLoads[3].addr = Chip.user + 52

\* ------------------------------------------------------------------ C10
\* C10: the commands of a page iteration are sent in the order block write
\* into the current buffer, destination (flash_base + page * page_size) and
\* source (that same buffer) slots, a waitFSR that returned, the applet run
\* (reset-vector slot, then G), then the EWP command.  No G is sent other
\* than right after a returned waitFSR of its own page, no EWP other than
\* right after its G, and on_buffer has been toggled once per EWP sent.
C10_PageIterationOrder ==
    Known =>
      LET base == Chip.user
          PageOf(i) == Count(SubSeq(log, 1, i - 1), IsGo)
      IN  /\ \A i \in 1..Len(log) :
                log[i].op = "G" =>
                  /\ i >= 7
                  /\ log[i] = Cmd("G", base + 32, 0, << >>)
                  /\ log[i - 1] = Cmd("W", base + 36, base + 1, << >>)
                  /\ log[i - 2].op = "FSRok"
                  /\ log[i - 3].op = "W" /\ log[i - 3].addr = base + 44
                  /\ log[i - 4] = Cmd("W", base + 40,
                                      Chip.address + PageOf(i) * Chip.size, << >>)
                  /\ log[i - 5].op = "S"
                  /\ log[i - 5].addr = log[i - 3].val
                  /\ log[i - 5].val = Chip.size
          /\ \A i \in 1..Len(log) :
                IsEWPWrite(log[i]) =>
                  /\ i > 1 /\ log[i - 1].op = "G"
                  /\ log[i] = ExpectedEWP(PageOf(i) - 1)
          /\ \A i \in 1..Len(log) :
                (log[i].op = "S" /\ i > 2 /\ i < Len(log)) =>
                    (log[i + 1].op = "W" /\ log[i + 1].addr = base + 40)
          /\ pc # "EEFCFlash_init" =>
                on_buffer = (IF Len(EWPWrites) % 2 = 0
                               THEN Chip.user + 52
                               ELSE Chip.user + 52 + Chip.size)

\* Two complete page iterations and the block write of a third.
C10_Witness ==
    /\ Known
    /\ Len(EWPWrites) = 2
    /\ Len(PageLoads) = 3
    /\ pc = "waitFSR" /\ ret = "writePage" /\ polls0 = 1

\* ------------------------------------------------------------------ C11
\* A command word written to a command register that is no EWP command
IsBootWrite(c) == IsFCRWrite(c) /\ ~IsEWPWrite(c)

Last(seq) == seq[Len(seq)]

\* C11: the Set-GPNVM-bit command is sent at most once, after the EWP of the
\* last page, directly after a waitFSR that returned; it is written to plane
\* 0's command register with argument 3 on a chip with brown-out capability
\* and 1 otherwise; only a second returned waitFSR follows it, and only then
\* the settle pause and the end of the session.  When the first waitFSR
\* fails the command is not sent, when the second fails the pause is not
\* reached.
C11_FinalizeOrder ==
    Known =>
      LET boot == Cmd("W", Chip.registers_addr + 4,
                      90 * 16777216 + (IF Chip.can_brownout THEN 3 ELSE 1) * 256 + 11,
                      << >>)
          n == CeilDiv(file_size, Chip.size)
      IN  /\ Count(log, IsBootWrite) <= 1
          /\ \A i \in 1..Len(log) :
                IsBootWrite(log[i]) =>
                  /\ log[i] = boot
                  /\ log[i - 1].op = "FSRok"
                  /\ Len(EWPWrites) = n
                  /\ n > 0 => IsEWPWrite(log[i - 2])
                  /\ \A j \in (i + 1)..Len(log) : log[j].op = "FSRok"
                  /\ Len(log) <= i + 1
          /\ pc = "setBootFlash_cmd" =>
                (Last(log).op = "FSRok" /\ Count(log, IsBootWrite) = 0)
          /\ pc \in {"setBootFlash_sleep", "complete"} =>
                (/\ Len(log) >= 3
                 /\ SubSeq(log, Len(log) - 2, Len(log))
                      = << FSRok, boot, FSRok >>)
          /\ (pc = "waitFSR" /\ ret = "setBootFlash_sleep") => Last(log) = boot
          /\ (pc = "failed" /\ ret = "setBootFlash_cmd") =>
                Count(log, IsBootWrite) = 0
          /\ (pc = "failed" /\ ret = "setBootFlash_sleep") => Last(log) = boot

\* A two-page session on a chip without brown-out capability, complete.
C11_Witness ==
    /\ Known /\ ~Chip.can_brownout
    /\ pc = "complete"
    /\ Len(EWPWrites) = 2

\* ------------------------------------------------------------------ C12
\* Byte i (from 1) of page k (from 0) of a full-scale image
E2EByte(k, i) == ((k * 256 + i - 1) % 255) + 1

UnknownChipSeen ==
    /\ pc \notin {"SamBA_init", "chipId", "main"}
    /\ cid \notin DOMAIN ModelTable
    /\ err # "struct.error"

\* The capacity check has been made on an image larger than the flash.
TooLargeSeen ==
    Known /\ pc \notin {"EEFCFlash_init", "write"} /\ file_size > Capacity

\* A poll has read the lock-error bit on a plane.
LockSeen == (polls0 > 0 /\ Bit2(fsr0)) \/ (polls1 > 0 /\ Bit2(fsr1))

\* The running or latest waitFSR has made RetryBound polls, none ready on
\* every present plane: its last poll was not ready, or it polled on.
TimeoutSeen ==
    /\ Known
    /\ \/ polls0 > RetryBound
       \/ /\ polls0 = RetryBound
          /\ ~(Bit0(fsr0) /\ (Chip.planes = 2 => Bit0(fsr1)))

\* The latest receive returned fewer bytes than it was asked for.
ShortReadSeen == last_read.got < last_read.want

\* C13: once a fatal condition has occurred - unknown chip, image too large,
\* lock error, status timeout, short read - the session has failed: the
\* program is at no position from which it sends a further command.
C13_FatalConditionAborts ==
    (UnknownChipSeen \/ TooLargeSeen \/ LockSeen \/ TimeoutSeen \/ ShortReadSeen)
        => pc = "failed"

\* ------------------------------------------------------------------ C14
IsAppletWrite(c) == c.op = "S" /\ c.addr = Chip.user
IsWordsWrite(c) == c.op = "W" /\ c.addr = Chip.user + 48
IsStackWrite(c) == c.op = "W" /\ c.addr = Chip.user + 32
IsFMR0Write(c) == c.op = "W" /\ c.addr = Chip.registers_addr
IsFMR1Write(c) == c.op = "W" /\ c.addr = Chip.registers_addr + 512

\* C14: in a session whose setup has run, the applet's 52 code bytes have
\* been written to ram_user_base exactly once, as the first command after
\* the handshake; the word-count slot has been written exactly once, with
\* page_size / 4, and the stack slot exactly once, with ram_stack_top; the
\* mode register of plane 0 has been written exactly once and that of plane
\* 1 exactly once on a two-plane chip and never on a one-plane chip; all of
\* these precede the first page's block write.  Before the setup no block
\* write and no word write has been sent.
C14_SetupOnce ==
    /\ pc \in {"SamBA_init", "chipId", "main", "EEFCFlash_init"} =>
          \A i \in 1..Len(log) : log[i].op \notin {"S", "W"}
    /\ (Known /\ pc # "EEFCFlash_init") =>
          LET two == Chip.planes = 2
              setup == IF two THEN 6 ELSE 5
          IN  /\ Len(log) >= setup
              /\ log[2] = Cmd("S", Chip.user, 52, code)
              /\ log[3] = Cmd("W", Chip.user + 48, Chip.size \div 4, << >>)
              /\ log[4] = Cmd("W", Chip.user + 32, Chip.stack, << >>)
              /\ Count(log, IsAppletWrite) = 1
              /\ Count(log, IsWordsWrite) = 1
              /\ Count(log, IsStackWrite) = 1
              /\ Count(log, IsFMR0Write) = 1
              /\ Count(log, IsFMR1Write) = (IF two THEN 1 ELSE 0)
              /\ \A i \in 1..Len(log) :
                    (IsFMR0Write(log[i]) \/ IsFMR1Write(log[i])) =>
                        (i \in 5..setup /\ log[i].val = 1536)
              /\ \A i \in 1..Len(log) :
                    (log[i].op = "S" /\ ~IsAppletWrite(log[i])) => i > setup

\* A one-plane chip with its first page loaded after the five setup commands.
C14_Witness ==
    /\ Known /\ Chip.planes = 1
    /\ Len(PageLoads) = 1
    /\ log[6].op = "S"

\* ------------------------------------------------------------------ C15
IsDestinationWrite(c) == c.op = "W" /\ c.addr = Chip.user + 40

\* Index of the latest G before index i, 0 when there is none
PrevGo(i) ==
    LET gs == {j \in 1..(i - 1) : log[j].op = "G"}
    IN  IF gs = {} THEN 0 ELSE CHOOSE j \in gs : \A m \in gs : m <= j

\* A command passing Test was sent after index lo and before index hi
SentBetween(lo, hi, Test(_)) == \E j \in (lo + 1)..(hi - 1) : Test(log[j])

\* C15 as claimed: before every G, after the G before it (or the start of
\* the session), each of the four slots - stack top, word count, source,
\* destination - has received a word write.
C15_AllFourSlotsBeforeEveryRun ==
    Known =>
      \A i \in 1..Len(log) :
          log[i].op = "G" =>
            /\ SentBetween(PrevGo(i), i, IsStackWrite)
            /\ SentBetween(PrevGo(i), i, IsWordsWrite)
            /\ SentBetween(PrevGo(i), i, IsSourceWrite)
            /\ SentBetween(PrevGo(i), i, IsDestinationWrite)

\* C15 as amended: before every G, after the G before it, the destination
\* and the source slots have each received exactly one word write; the stack
\* top and the word count slots are written once in the setup, before the
\* first G, and never between two G's.
C15_SourceAndDestinationBeforeEveryRun ==
    Known =>
      \A i \in 1..Len(log) :
          log[i].op = "G" =>
            LET p == PrevGo(i)
                seg == SubSeq(log, p + 1, i - 1)
            IN  /\ Count(seg, IsSourceWrite) = 1
                /\ Count(seg, IsDestinationWrite) = 1
                /\ Count(seg, IsStackWrite) = (IF p = 0 THEN 1 ELSE 0)
                /\ Count(seg, IsWordsWrite) = (IF p = 0 THEN 1 ELSE 0)

\* The applet triggered for a second page.
C15_Witness == Known /\ Count(log, IsGo) = 2 /\ IsEWPWrite(Last(log))

\* ------------------------------------------------------------------ C16
\* C16: a receive that returned fewer bytes than were asked for has ended
\* the session with an error - the 4-byte receive of readWord and the 2-byte
\* receive of the handshake alike.
C16_ShortReadIsError ==
    last_read.got < last_read.want => (pc = "failed" /\ err = "struct.error")

\* ------------------------------------------------------------------ C17
\* C17 as claimed: when the block write of a page is sent no flash command
\* is pending: every command-register write before it is followed, before
\* the block write, by a waitFSR that returned.
C17_NoBlockWriteWhileCommandPending ==
    Known =>
      \A i \in 1..Len(log) :
          (log[i].op = "S" /\ ~IsAppletWrite(log[i])) =>
            \A j \in 1..(i - 1) :
                IsFCRWrite(log[j]) => SentBetween(j, i, LAMBDA c : c.op = "FSRok")

\* C17 as amended: the block write of every page after the first is sent
\* directly after the EWP command of the page before it, with no status poll
\* in between, and into the other staging buffer than the one that page was
\* loaded into; the status wait for that EWP command comes after the block
\* write and before the applet is run on it.
C17_BlockWriteFollowsEWP ==
    Known =>
      /\ \A i \in 1..Len(log) :
            (log[i].op = "S" /\ ~IsAppletWrite(log[i])
                /\ Count(SubSeq(log, 1, i - 1), IsGo) > 0) =>
              /\ IsEWPWrite(log[i - 1])
              /\ log[i - 2].op = "G"
              /\ log[i - 7].op = "S" /\ log[i - 7].addr # log[i].addr
              /\ \A j \in (i + 1)..Len(log) :
                    (log[j].op = "G" /\ PrevGo(j) < i) =>
                        SentBetween(i, j, LAMBDA c : c.op = "FSRok")
      /\ (pc = "write_loop" /\ page_num > 0) => IsEWPWrite(Last(log))
      /\ (pc = "waitFSR" /\ ret = "writePage") =>
            /\ Last(log).op = "W"
            /\ page_num > 0 => IsEWPWrite(log[Len(log) - 3])

\* The block write of the third page, sent behind the second page's EWP.
C17_Witness ==
    /\ Known
    /\ Len(PageLoads) = 3
    /\ pc = "waitFSR" /\ ret = "writePage"
    /\ IsEWPWrite(log[Len(log) - 3])

\* ------------------------------------------------------------------ C18
IsFCR0Write(c) == c.op = "W" /\ c.addr = Chip.registers_addr + 4
IsFCR1Write(c) == c.op = "W" /\ c.addr = Chip.registers_addr + 516

C19_EachConditionHasItsOwnFailure ==
    /\ UnknownChipSeen => (pc = "failed" /\ err = "Unknow chip ID")
    /\ TooLargeSeen => (pc = "failed" /\ err = "too big for this chip")
    /\ LockSeen => (pc = "failed" /\ err = "Flash lock error")
    /\ TimeoutSeen => (pc = "failed" /\ err = "Flash command error")

\* ------------------------------------------------------------------ C20
IsBinaryMode(c) == c.op = "N"

\* C20: N# is the first command of the session and is sent exactly once:
\* before it nothing has been sent, after it the log starts with it and
\* holds no second one; its 2-byte reply has been read, whatever came back,
\* before the first read-word command, and no read-word, write-word,
\* block-write or execute command precedes it.
C20_BinaryModeFirstAndOnce ==
    /\ pc = "SamBA_init" => (log = << >> /\ id_reads = << >>)
    /\ pc # "SamBA_init" =>
          /\ Len(log) >= 1
          /\ log[1] = Cmd("N", 0, 0, << >>)
          /\ Count(log, IsBinaryMode) = 1
    /\ pc = "chipId" =>
          (log = << Cmd("N", 0, 0, << >>) >> /\ id_reads = << >>
             /\ last_read.want = 2)
    /\ \A i \in 1..Len(id_reads) : id_reads[i].op = "w"

\* The handshake answered in full and chipId's two word reads sent after it.
C20_Witness ==
    /\ pc = "main"
    /\ log = << Cmd("N", 0, 0, << >>) >>
    /\ Len(id_reads) = 2

\* ------------------------------------------------------------------ C21
IsResetWrite(c) == c.op = "W" /\ c.addr = Chip.user + 36

\* C21: a run of the applet is two commands and no more: the word write of
\* base + 1 (code start 0, Thumb bit set) to the reset-vector slot at
\* base + 0x24, directly followed by G at base + 0x20.  The reset-vector slot
\* is written nowhere else, and nothing waits for the routine: what follows
\* the G, if anything, is the next command of writePage, the EWP register
\* write, with no status poll and no read in between.
C21_RunIsResetThenGo ==
    Known =>
      /\ Count(log, IsResetWrite) = Count(log, IsGo)
      /\ \A i \in 1..Len(log) :
            /\ log[i].op = "G" =>
                  /\ log[i] = Cmd("G", \h20001020, 0, << >>)
                  /\ log[i - 1] = Cmd("W", \h20001024, \h20001001, << >>)
                  /\ i < Len(log) => IsEWPWrite(log[i + 1])
            /\ IsResetWrite(log[i]) => (i < Len(log) /\ log[i + 1].op = "G")

\* The applet run for a page, and the EWP command sent right behind the G.
C21_Witness ==
    /\ Known
    /\ Len(log) >= 3
    /\ IsEWPWrite(Last(log))
    /\ log[Len(log) - 1].op = "G"
    /\ IsResetWrite(log[Len(log) - 2])

\* ------------------------------------------------------------------ C22
\* A word whose top byte is 0xEA, as a signed 32-bit pattern:
\* 0xEA000000 .. 0xEAFFFFFF
IsArm7Branch(w) == w >= -369098752 /\ w <= -352321537

\* C22: when chipId has returned, the record of its reads is one of three
\* shapes.  The first read is of address 0.  When that word's top byte is
\* 0xEA the second and last read is of 0xFFFFF240 and its word is returned.
\* Otherwise the second read is of 0x400E0740; a non-zero word is returned
\* with no further read, and exactly when it is zero a third read, of
\* 0x400E0940, is made and its word returned.  At most three reads are ever
\* made, and up to the return nothing but the handshake has been sent
\* besides them.
C22_ChipIdReads ==
    /\ Len(id_reads) <= 3
    /\ \A i \in 1..Len(id_reads) : id_reads[i].op = "w" /\ id_reads[i].val = 4
    /\ pc = "main" =>
          /\ log = << Cmd("N", 0, 0, << >>) >>
          /\ Len(id_reads) >= 2
          /\ id_reads[1].addr = 0
          /\ LET vector == id_reads[1].data[1]
                 second == id_reads[2].data[1]
             IN  IF IsArm7Branch(vector) THEN
                     /\ Len(id_reads) = 2
                     /\ id_reads[2].addr = -3520
                     /\ cid = second
                 ELSE
                     /\ id_reads[2].addr = \h400E0740
                     /\ Len(id_reads) = 3 <=> second = 0
                     /\ second # 0 => cid = second
                     /\ second = 0 =>
                            /\ id_reads[3].addr = \h400E0940
                            /\ cid = id_reads[3].data[1]

\* The primary register read as zero and the identifier taken from the
\* secondary register.
C22_Witness ==
    /\ pc = "main"
    /\ Len(id_reads) = 3
    /\ id_reads[2].data = << 0 >>
    /\ cid = ATSAM3X8E

\* ------------------------------------------------------------------ C23
\* Index i of the log is covered by a status wait: a waitFSR returned before
\* it and no command-register write was sent since that return.
AfterReadyWait(i) ==
    \E j \in 1..(i - 1) :
        /\ log[j].op = "FSRok"
        /\ \A m \in (j + 1)..(i - 1) : ~IsFCRWrite(log[m])

\* C23: every G and every command word written to a command register (EWP
\* or Set-GPNVM-bit) is sent after a waitFSR that returned, with no command
\* word written between that return and it; and a waitFSR returns only with
\* the ready bit read on every present plane at its last poll.  So between
\* two command words there is always a returned waitFSR.
C23_OneCommandOutstanding ==
    Known =>
      /\ \A i \in 1..Len(log) :
            (log[i].op = "G" \/ IsFCRWrite(log[i])) => AfterReadyWait(i)
      /\ pc \in ReturnPoints =>
            /\ Last(log).op = "FSRok"
            /\ Bit0(fsr0)
            /\ Chip.planes = 2 => Bit0(fsr1)

\* The Set-GPNVM-bit command sent behind the wait that followed the EWP of
\* the only page.
C23_Witness ==
    /\ Known
    /\ Len(EWPWrites) = 1
    /\ pc = "waitFSR" /\ ret = "setBootFlash_sleep"
    /\ IsBootWrite(Last(log))

\* ------------------------------------------------------------------ C24
IsPageLoad(c) == c.op = "S" /\ ~IsAppletWrite(c)

\* C24: a block write into a staging buffer that an earlier page was loaded
\* into is sent only after that page's EWP command and a waitFSR that
\* returned after it; and when the applet is triggered for a page, the source
\* slot holds the address of the buffer that page was loaded into.
C24_BufferReusedAfterWait ==
    Known =>
      /\ \A i \in 1..Len(log) :
            IsPageLoad(log[i]) =>
              \A p \in 1..(i - 1) :
                  (IsPageLoad(log[p]) /\ log[p].addr = log[i].addr) =>
                    \E e \in (p + 1)..(i - 1) :
                        /\ IsEWPWrite(log[e])
                        /\ SentBetween(e, i, LAMBDA c : c.op = "FSRok")
      /\ \A i \in 1..Len(log) :
            log[i].op = "G" =>
              /\ IsSourceWrite(log[i - 3])
              /\ IsPageLoad(log[i - 5])
              /\ log[i - 3].val = log[i - 5].addr

\* The fourth page of an image loaded into buffer B, which held the second.
C24_Witness ==
    /\ Known /\ Chip.planes = 1
    /\ Len(PageLoads) = 4
    /\ PageLoads[4].addr = PageLoads[2].addr
    /\ PageLoads[4].data # PageLoads[2].data

\* ------------------------------------------------------------------ C25
\* C25: on a target that becomes ready after every command and never sets a
\* lock bit, a session on a chip of the table whose image fits the flash
\* eventually is complete, with an EWP command sent for each of its
\* ceil(S/P) pages.
C25_FittingImageCompletes ==
    (pc = "write" /\ file_size <= Capacity)
        ~> (pc = "complete" /\ Len(EWPWrites) = CeilDiv(file_size, Chip.size))

\* ------------------------------------------------------------------ C26
\* The EWP argument writePage computes for a page of the chip
EWPArg(chip, page) ==
    IF chip.planes = 2 /\ page >= chip.pages \div 2
      THEN page - chip.pages \div 2
      ELSE page

Disjoint(b1, n1, b2, n2) == b1 + n1 <= b2 \/ b2 + n2 <= b1

\* The layout of one row of the table
RowConsistent(row) ==
    LET A == row.user + 52
        B == row.user + 52 + row.size
    IN  /\ \A slot \in {32, 36, 40, 44, 48} : slot + 4 <= Len(code)
        /\ {stack_ptr, reset_ptr, dst_ptr, src_ptr, words_ptr} = {32, 36, 40, 44, 48}
        /\ page_buffer_a(row) = A
        /\ page_buffer_b(row) = B
        /\ Disjoint(row.user, 52, A, row.size)
        /\ Disjoint(row.user, 52, B, row.size)
        /\ Disjoint(A, row.size, B, row.size)
        /\ B + row.size <= row.stack
        /\ row.size % 4 = 0
        /\ (row.size \div 4) * 4 = row.size
        /\ row.planes = 2 => row.pages % 2 = 0
        /\ row.size * row.pages > 0

\* C27: every row of the chip table is consistent - the five patch slots lie
\* within the applet's 52 code bytes, buffer A starts right behind the
\* applet and buffer B right behind buffer A, applet and buffers are
\* pairwise disjoint and end below the stack top, page_size is a multiple of
\* 4, pages is even with two planes, and the capacity is positive - and a
\* session on such a row uses that layout: the applet is written to
\* ram_user_base, the word count written times 4 is page_size, and every
\* page is loaded, page_size bytes of it, into buffer A or buffer B.
C27_LayoutConsistent ==
    /\ \A id \in DOMAIN CHIP_TABLE : RowConsistent(CHIP_TABLE[id])
    /\ (Known /\ cid = ATSAM3X8H) =>
          /\ Chip = CHIP_TABLE[cid]
          /\ \A i \in 1..Len(log) :
                /\ IsAppletWrite(log[i]) => log[i].val = 52
                /\ IsWordsWrite(log[i]) => log[i].val * 4 = Chip.size
                /\ IsStackWrite(log[i]) => log[i].val = Chip.stack
                /\ IsPageLoad(log[i]) =>
                      /\ log[i].addr \in {Chip.user + 52, Chip.user + 52 + Chip.size}
                      /\ log[i].val = Chip.size
                      /\ Disjoint(Chip.user, 52, log[i].addr, log[i].val)
                      /\ log[i].addr + log[i].val <= Chip.stack

\* A session on the ATSAM3X8H with a page in each of the two buffers.
C27_Witness ==
    /\ Known /\ cid = ATSAM3X8H
    /\ Len(PageLoads) = 2
    /\ PageLoads[1].addr = \h20001034
    /\ PageLoads[2].addr = \h20001134

\* ------------------------------------------------------------------ C28
\* C28: a chunk shorter than page_size is read only at the last index of the
\* page loop: whenever done is set, the index is page_count - 1 =
\* ceil(S/P) - 1, the file has been read to its end and S is no multiple of
\* P.  So the break leaves the loop where the range would have ended it: when
\* write() has returned, page_count pages have been loaded whether it left by
\* the break or by the end of the range.
C28_BreakIsRedundant ==
    (Known /\ pc \notin {"EEFCFlash_init", "write"}) =>
      /\ page_count = CeilDiv(file_size, Chip.size)
      /\ done =>
            /\ page_num = page_count - 1
            /\ f_pos = file_size
            /\ file_size % Chip.size # 0
      /\ (pc = "write_loop" /\ page_num < page_count) =>
            (~done /\ f_pos = page_num * Chip.size)
      /\ pc \in {"setBootFlash", "setBootFlash_cmd", "setBootFlash_sleep",
                 "complete"} =>
            /\ Len(PageLoads) = page_count
            /\ page_num = (IF done THEN page_count - 1 ELSE page_count)

\* write() left by the break after a short third page.
C28_Witness ==
    /\ Known
    /\ pc = "setBootFlash"
    /\ done /\ page_num = 2 /\ page_count = 3

====
